---- MODULE Spec2Model ----
(***************************************************************************)
(* Model of the shared retry / error-classification layer of the API       *)
(* modules (src/utils/error_handling.py) and of the operations of the      *)
(* Coda, GitHub and Google Calendar clients that are built on it.          *)
(*                                                                         *)
(*   Spec          one invocation of a function wrapped by                 *)
(*                 retry_on_failure: an arbitrary callable ("func") or an  *)
(*                 operation of CodaClient, GitHubClient or                *)
(*                 GoogleCalendarClient, called directly or as the probe   *)
(*                 of test_connection.                                     *)
(*   SpecClassify  ErrorHandler.handle_response applied to one response.   *)
(*   SpecCooldown  handle_rate_limit applied to one response.              *)
(*   SpecHelpers   ErrorHandler.is_retryable_error and get_retry_delay     *)
(*                 applied to one input each.                              *)
(*   SpecValidate  validate_input applied to one input.                    *)
(*   SpecThreads   two threads calling one wrapped function.               *)
(*   SpecErrors    construction of one APIError (or subclass) object.      *)
(*   SpecFair      Spec with attempts and sleeps that end.                 *)
(***************************************************************************)
EXTENDS Integers, Sequences, FiniteSets, TLC

VARIABLES
    pc,              \* position of the wrapper: idle, attempting, sleeping, done, failed
    op,              \* the wrapped function of this invocation
    config,          \* arguments of retry_on_failure at the decoration site
    attempt_number,  \* tenacity's retry_state.attempt_number
    calls,           \* number of invocations of the wrapped function
    history,         \* outcome of each invocation of the wrapped function, in order
    result,          \* what the wrapper returned or raised to its caller
    pending_wait,    \* the wait computed for the sleep in progress
    slept,           \* every time.sleep performed, in order
    warnings,        \* number of logger.warning calls
    requests_sent,   \* number of HTTP requests issued by client operations
    caller,          \* who called the wrapped function: direct or test_connection
    connection,      \* what test_connection returned
    response,        \* SpecClassify: the response handed to handle_response
    service,         \* SpecClassify: the service label handed to handle_response
    classified,      \* SpecClassify: what handle_response returned or raised
    cd_pc,           \* SpecCooldown: position in handle_rate_limit
    cd_slept,        \* SpecCooldown: the time.sleep calls made, in order
    cd_warnings,     \* SpecCooldown: number of logger.warning calls
    cd_outcome,      \* SpecCooldown: what handle_rate_limit returned or raised
    h_exception,     \* SpecHelpers: class of the exception given to is_retryable_error
    h_retryable,     \* SpecHelpers: what is_retryable_error returned
    h_delay_in,      \* SpecHelpers: arguments of get_retry_delay and the clock
    h_delay,         \* SpecHelpers: what get_retry_delay returned
    v_data,          \* SpecValidate: the data given to validate_input
    v_required,      \* SpecValidate: the required_fields given to validate_input
    v_outcome,       \* SpecValidate: what validate_input returned or raised
    threads,         \* SpecThreads: the invocation in progress on each thread
    e_args,          \* SpecErrors: the class called and the arguments given to it
    e_error          \* SpecErrors: the error object constructed

retryVars == <<pc, op, config, attempt_number, calls, history, result,
               pending_wait, slept, warnings, requests_sent, caller, connection>>

classifyVars == <<response, service, classified>>

cooldownVars == <<cd_pc, cd_slept, cd_warnings, cd_outcome>>

helperVars == <<h_exception, h_retryable, h_delay_in, h_delay>>

validateVars == <<v_data, v_required, v_outcome>>

errorVars == <<e_args, e_error>>

vars == <<retryVars, classifyVars, cooldownVars, helperVars, validateVars, threads,
          errorVars>>

-----------------------------------------------------------------------------
(* Bounds of the model *)

\* largest max_attempts a decoration site of the arbitrary callable is given
MaxAttemptsBound == 4

\* the fractional second of the clock is one of 0/FracSteps .. (FracSteps-1)/FracSteps
FracSteps == 10

\* largest attempt number given to get_retry_delay
MaxDelayAttempt == 8

\* longest required_fields list given to validate_input
MaxRequired == 2

\* number of threads that call the wrapped function at the same time
NumThreads == 2

-----------------------------------------------------------------------------
(* Values *)

\* the empty mapping
EmptyFields == [k \in {} |-> ""]

\* Python's None
None == [type |-> "None", fields |-> EmptyFields]

\* a JSON object with one member
JsonObject(key, value) == [type |-> "dict", fields |-> [k \in {key} |-> value]]

\* a JSON array (its elements are not looked at by the code modelled)
JsonArray == [type |-> "list", fields |-> EmptyFields]

\* the JSON literal null, which json() decodes to None
JsonNull == [type |-> "NoneType", fields |-> EmptyFields]

\* Body texts a vendor may answer with.
BodyTexts ==
    { "{message: Bad credentials}", "{error: not_found}", "{items: docs}",
      "[]", "null", "<html>Bad Gateway</html>", "" }

\* response.json(): the decoded body, or a raised JSONDecodeError (a ValueError).
Decodable(text) ==
    text \in {"{message: Bad credentials}", "{error: not_found}", "{items: docs}", "[]", "null"}

JsonDecode(text) ==
    CASE text = "{message: Bad credentials}" -> JsonObject("message", "Bad credentials")
      [] text = "{error: not_found}"         -> JsonObject("error", "not_found")
      [] text = "{items: docs}"              -> JsonObject("items", "docs")
      [] text = "[]"                         -> JsonArray
      [] text = "null"                       -> JsonNull
      [] OTHER                               -> None

-----------------------------------------------------------------------------
(* Exception classes *)

\* requests.exceptions: RequestException and the subclasses of it that the
\* transport raises (JSONDecodeError is one since requests 2.27)
RequestExceptionClasses ==
    {"RequestException", "ConnectionError", "Timeout", "ConnectTimeout",
     "ReadTimeout", "HTTPError", "JSONDecodeError"}

\* the APIError hierarchy of error_handling.py
APIErrorClasses ==
    {"APIError", "AuthenticationError", "RateLimitError", "ValidationError", "RetryableError"}

\* Python's built-in exceptions; the built-in ConnectionError and
\* TimeoutError are not the classes of the same name imported from requests
BuiltinClasses ==
    {"ValueError", "AttributeError", "TypeError", "KeyError",
     "builtins.ConnectionError", "builtins.TimeoutError"}

\* everything an arbitrary wrapped callable is taken to raise
ExceptionClasses == RequestExceptionClasses \cup APIErrorClasses \cup BuiltinClasses

\* the class itself and the classes it inherits from
Bases(cls) ==
    {cls} \cup
    CASE cls = "ConnectionError" -> {"RequestException"}
      [] cls = "Timeout"         -> {"RequestException"}
      [] cls = "ConnectTimeout"  -> {"ConnectionError", "Timeout", "RequestException"}
      [] cls = "ReadTimeout"     -> {"Timeout", "RequestException"}
      [] cls = "HTTPError"       -> {"RequestException"}
      [] cls = "JSONDecodeError" -> {"RequestException", "ValueError"}
      [] cls \in APIErrorClasses -> {"APIError"}
      [] OTHER                   -> {}

\* isinstance(exception, classes)
IsInstance(cls, classes) == Bases(cls) \cap classes # {}

-----------------------------------------------------------------------------
(* Responses *)

StatusCodes == {200, 201, 204, 299, 301, 400, 401, 403, 404, 429, 500, 503}

Services == {"Coda", "GitHub"}

\* values of the Retry-After header
RetryAfterTexts == {"30", "120", "", "Wed, 21 Oct 2026 07:28:00 GMT"}

HeaderSets == {EmptyFields} \cup {[k \in {"Retry-After"} |-> v] : v \in RetryAfterTexts}

\* a completed HTTP response
Responses == [status_code : StatusCodes, text : BodyTexts, headers : HeaderSets]

\* what a call returned or raised.  status_code is {} for None.
Returned(value) ==
    [kind |-> "return", cls |-> "none", message |-> <<>>, status_code |-> {},
     response |-> None, data |-> value]

Raised(cls, message, status_code, body) ==
    [kind |-> "raise", cls |-> cls, message |-> message, status_code |-> status_code,
     response |-> body, data |-> None]

\* a call that has not ended
Pending == [Returned(None) EXCEPT !.kind = "pending"]

\* a statement whose expression evaluates response.json(): it completes as
\* given when the body decodes, and raises JSONDecodeError otherwise
JsonOrRaise(resp, completed) ==
    IF Decodable(resp.text) THEN completed
    ELSE Raised("JSONDecodeError", <<"Expecting value">>, {}, None)

\* whether a message holds a piece of text
Contains(message, piece) == \E i \in DOMAIN message : message[i] = piece

-----------------------------------------------------------------------------
(* ErrorHandler.handle_response *)

\* the status codes handle_response answers by returning the body
SuccessStatus(status_code) == status_code = 200

\* a local value that is a message under construction
Message(message) == [Returned(None) EXCEPT !.message = message]

\* the try block of lines 76-81: the message once the detail is appended, or
\* the exception that leaves the block
ErrorMessage(resp, svc) ==
    LET error_message == <<svc, " API error: ", ToString(resp.status_code)>> IN
    IF ~Decodable(resp.text)
    THEN Message(error_message \o <<" - ", resp.text>>)
    ELSE LET error_data == JsonDecode(resp.text) IN
         CASE error_data.type = "NoneType" ->
                Raised("TypeError", <<"argument of type 'NoneType' is not iterable">>, {}, None)
           [] error_data.type = "dict" /\ "message" \in DOMAIN error_data.fields ->
                Message(error_message \o <<" - ", error_data.fields["message"]>>)
           [] OTHER ->
                Message(error_message)

\* the exception class handle_response picks for a status code
ErrorClass(status_code) ==
    IF status_code \in {401, 403} THEN "AuthenticationError"
    ELSE IF status_code = 429 THEN "RateLimitError"
    ELSE "APIError"

HandleResponse(resp, svc) ==
    IF SuccessStatus(resp.status_code)
    THEN JsonOrRaise(resp, Returned(JsonDecode(resp.text)))
    ELSE LET m == ErrorMessage(resp, svc) IN
         IF m.kind = "raise" THEN m
         ELSE JsonOrRaise(resp, Raised(ErrorClass(resp.status_code), m.message,
                                       {resp.status_code}, JsonDecode(resp.text)))

-----------------------------------------------------------------------------
(* handle_rate_limit, a function of the module error_handling *)

\* int(retry_after)
IsIntegerText(text) == text \in {"30", "120"}

IntOf(text) == CASE text = "30" -> 30 [] text = "120" -> 120 [] OTHER -> 0

\* the wait when the response carries no usable Retry-After header
DefaultCooldown == 60

\* if retry_after: the header is there and its value is not empty
RetryAfterPresent(resp) ==
    "Retry-After" \in DOMAIN resp.headers /\ resp.headers["Retry-After"] # ""

\* a cooldown that honours a Retry-After header on any status
CooldownEntryAnyStatus(resp, svc) ==
    IF RetryAfterPresent(resp) /\ IsIntegerText(resp.headers["Retry-After"])
    THEN [outcome |-> Pending, sleeps |-> <<IntOf(resp.headers["Retry-After"])>>,
          warnings |-> 1]
    ELSE IF resp.status_code # 429
    THEN [outcome |-> Returned(None), sleeps |-> <<>>, warnings |-> 0]
    ELSE [outcome |-> Pending, sleeps |-> <<DefaultCooldown>>, warnings |-> 1]

\* Lines 193-202: what handle_rate_limit has done when it reaches its raise
\* statement (outcome pending), or how it ended before that.
CooldownEntry(resp, svc) ==
    LET quiet(r) == [outcome |-> r, sleeps |-> <<>>, warnings |-> 0] IN
    IF resp.status_code # 429 THEN quiet(Returned(None))
    ELSE IF RetryAfterPresent(resp)
    THEN IF IsIntegerText(resp.headers["Retry-After"])
         THEN [outcome |-> Pending, sleeps |-> <<IntOf(resp.headers["Retry-After"])>>,
               warnings |-> 1]
         ELSE quiet(Raised("ValueError", <<"invalid literal for int()">>, {}, None))
    ELSE [outcome |-> Pending, sleeps |-> <<DefaultCooldown>>, warnings |-> 1]

\* Line 204: raise RateLimitError(..., 429, response.json())
RateLimitRaise(resp, svc) ==
    JsonOrRaise(resp, Raised("RateLimitError", <<svc, " rate limit exceeded">>, {429},
                             JsonDecode(resp.text)))

\* What handle_rate_limit does with a response: the sleeps and warnings it
\* makes, and what it returns or raises.
HandleRateLimit(resp, svc) ==
    LET entry == CooldownEntry(resp, svc) IN
    IF entry.outcome.kind = "pending"
    THEN [entry EXCEPT !.outcome = RateLimitRaise(resp, svc)]
    ELSE entry

-----------------------------------------------------------------------------
(* The client operations *)

\* the attributes of the class ErrorHandler (its three static methods)
ErrorHandlerAttributes == {"handle_response", "is_retryable_error", "get_retry_delay"}

ClientOperations == {"CodaClient.list_documents", "GitHubClient.get_user_info"}

\* the other operations of CodaClient and GitHubClient: each checks its
\* arguments and then sends one request, in the same try block
CheckedOperations ==
    {"CodaClient.get_document", "CodaClient.list_tables", "CodaClient.get_table_data",
     "CodaClient.create_row", "CodaClient.update_row",
     "GitHubClient.get_user_repositories", "GitHubClient.get_repository",
     "GitHubClient.create_repository", "GitHubClient.get_repository_issues",
     "GitHubClient.create_issue"}

CodaOperations ==
    {"CodaClient.list_documents", "CodaClient.get_document", "CodaClient.list_tables",
     "CodaClient.get_table_data", "CodaClient.create_row", "CodaClient.update_row"}

ServiceOf(operation) == IF operation \in CodaOperations THEN "Coda" ELSE "GitHub"

\* what requests.get does: raises a transport exception or returns a response
TransportFailures == {"ConnectionError", "Timeout", "ConnectTimeout", "ReadTimeout"}

HttpOutcomes ==
    [kind : {"raise"}, cls : TransportFailures, resp : {[status_code |-> 200, text |-> "", headers |-> EmptyFields]}]
        \cup [kind : {"response"}, cls : {"none"}, resp : Responses]

\* what the request of a checked operation ends with: every transport
\* failure, and answers of each kind the try block tells apart
CheckedHttpOutcomes ==
    {h \in HttpOutcomes :
        \/ h.kind = "raise"
        \/ /\ h.resp.status_code \in {200, 401, 429, 500}
           /\ h.resp.text \in {"{items: docs}", "<html>Bad Gateway</html>"}
           /\ h.resp.headers \in {EmptyFields, [k \in {"Retry-After"} |-> "30"]}}

\* what the operation makes of the parsed body of a success
ReturnValue(operation, data) ==
    IF operation = "CodaClient.create_row"
    THEN \* data.get('rows', [{}])[0] if data.get('rows') else {}
         IF data.type # "dict"
         THEN Raised("AttributeError", <<"object has no attribute 'get'">>, {}, None)
         ELSE IF "rows" \in DOMAIN data.fields
              THEN Returned(JsonObject("row", data.fields["rows"]))
              ELSE Returned([type |-> "dict", fields |-> EmptyFields])
    ELSE IF operation \in {"CodaClient.list_documents", "CodaClient.list_tables",
                           "CodaClient.get_table_data"}
    THEN \* data.get('items', [])
         IF data.type # "dict"
         THEN Raised("AttributeError", <<"object has no attribute 'get'">>, {}, None)
         ELSE IF "items" \in DOMAIN data.fields
              THEN Returned(JsonObject("items", data.fields["items"]))
              ELSE Returned(JsonArray)
    ELSE Returned(data)

\* the statements of the try block, up to the exception that leaves it
TryBlock(operation, http) ==
    LET quiet(r) == [outcome |-> r, sleeps |-> <<>>, warnings |-> 0] IN
    IF http.kind = "raise"
    THEN quiet(Raised(http.cls, <<"transport failure">>, {}, None))
    ELSE IF "handle_rate_limit" \notin ErrorHandlerAttributes
    THEN quiet(Raised("AttributeError",
                      <<"type object 'ErrorHandler' has no attribute 'handle_rate_limit'">>,
                      {}, None))
    ELSE LET cooldown == HandleRateLimit(http.resp, ServiceOf(operation)) IN
         IF cooldown.outcome.kind = "raise" THEN cooldown
         ELSE LET data == HandleResponse(http.resp, ServiceOf(operation)) IN
              IF data.kind = "raise" THEN quiet(data)
              ELSE quiet(ReturnValue(operation, data.data))

\* a client without the except clause: the exception leaves as it is
ExceptClauseAbsent(operation, r) == r

\* except requests.exceptions.RequestException as e: raise APIError(...)
ExceptClause(operation, r) ==
    IF r.outcome.kind = "raise" /\ IsInstance(r.outcome.cls, {"RequestException"})
    THEN [r EXCEPT !.outcome = Raised("APIError", <<"Failed: ">> \o r.outcome.message, {}, None)]
    ELSE r

\* one invocation of the body of a client operation
ClientOperation(operation, http) == ExceptClause(operation, TryBlock(operation, http))

-----------------------------------------------------------------------------
(* GoogleCalendarClient.list_calendars *)

CalendarOperations == {"GoogleCalendarClient.list_calendars"}

\* the operation that issues two requests
EventOperations == {"GoogleCalendarClient.update_event"}

\* the other operations of GoogleCalendarClient: each checks its arguments
\* and then executes one request
CheckedCalendarOperations ==
    {"GoogleCalendarClient.get_calendar", "GoogleCalendarClient.list_events",
     "GoogleCalendarClient.get_event", "GoogleCalendarClient.create_event",
     "GoogleCalendarClient.delete_event"}

\* every operation decorated with @retry_on_failure(max_attempts=3)
DecoratedOperations ==
    ClientOperations \cup CheckedOperations \cup CalendarOperations
        \cup CheckedCalendarOperations \cup EventOperations

\* what the transport under googleapiclient raises when no response arrives
GoogleTransportFailures == {"builtins.ConnectionError", "builtins.TimeoutError"}

GoogleOutcomes ==
    [kind : {"raise"}, cls : GoogleTransportFailures,
     resp : {[status_code |-> 200, text |-> "", headers |-> EmptyFields]}]
        \cup [kind : {"response"}, cls : {"none"}, resp : Responses]

\* request.execute(): googleapiclient raises HttpError for a status of 300 or
\* more, returns an empty body for 204 and the decoded body otherwise
Execute(http) ==
    IF http.kind = "raise" THEN Raised(http.cls, <<"transport failure">>, {}, None)
    ELSE IF http.resp.status_code >= 300
    THEN Raised("HttpError", <<"HttpError ", ToString(http.resp.status_code)>>,
                {http.resp.status_code}, None)
    ELSE IF http.resp.status_code = 204
    THEN Returned([type |-> "dict", fields |-> EmptyFields])
    ELSE JsonOrRaise(http.resp, Returned(JsonDecode(http.resp.text)))

\* lines 61-72: e.resp.status is the status_code of the HttpError raised by
\* execute(); the errors raised in its place are given a message only
ListCalendars(http) ==
    LET executed == Execute(http) IN
    IF executed.kind = "return"
    THEN \* calendar_list.get('items', [])
         IF executed.data.type # "dict"
         THEN Raised("APIError", <<"Unexpected error listing calendars: ">>, {}, None)
         ELSE IF "items" \in DOMAIN executed.data.fields
              THEN Returned(JsonObject("items", executed.data.fields["items"]))
              ELSE Returned(JsonArray)
    ELSE IF executed.cls = "HttpError"
    THEN IF executed.status_code \in {{401}, {403}}
         THEN Raised("AuthenticationError", <<"Authentication failed: ">> \o executed.message,
                     {}, None)
         ELSE IF executed.status_code = {429}
         THEN Raised("RateLimitError", <<"Rate limit exceeded: ">> \o executed.message,
                     {}, None)
         ELSE Raised("APIError", <<"Failed to list calendars: ">> \o executed.message,
                     {}, None)
    ELSE Raised("APIError", <<"Unexpected error listing calendars: ">> \o executed.message,
                {}, None)

-----------------------------------------------------------------------------
(* retry_on_failure: the tenacity.retry decoration of lines 146-153 *)

\* the default arguments of retry_on_failure
DefaultMaxAttempts == 3
DefaultBaseDelay == 1
DefaultMaxDelay == 60

\* retry_on_failure(max_attempts, base_delay, max_delay) at a decoration site
RetryConfigs(operation) ==
    IF operation \in DecoratedOperations
    THEN \* @retry_on_failure(max_attempts=3)
         {[max_attempts |-> 3, base_delay |-> DefaultBaseDelay, max_delay |-> DefaultMaxDelay]}
    ELSE [max_attempts : 1..MaxAttemptsBound,
          base_delay   : {DefaultBaseDelay, 2},
          max_delay    : {3, DefaultMaxDelay}]

\* a predicate that also retries authentication failures
RetryPredicateAlsoAuthentication(fut) ==
    fut.kind = "raise"
        /\ IsInstance(fut.cls, {"ConnectionError", "Timeout", "RetryableError",
                                "AuthenticationError"})

\* a predicate that retries what ErrorHandler.is_retryable_error lists
RetryPredicateAlsoHTTPError(fut) ==
    fut.kind = "raise"
        /\ IsInstance(fut.cls, {"ConnectionError", "Timeout", "RetryableError", "HTTPError"})

\* retry=retry_if_exception_type((ConnectionError, Timeout, RetryableError)),
\* the first two being the classes imported from requests.exceptions
RetryPredicate(fut) ==
    fut.kind = "raise" /\ IsInstance(fut.cls, {"ConnectionError", "Timeout", "RetryableError"})

\* a stop condition that counts retries instead of attempts
StopOneAttemptEarly(attempt, cfg) == attempt >= cfg.max_attempts - 1

\* a stop condition that allows one attempt more
StopOneAttemptLate(attempt, cfg) == attempt >= cfg.max_attempts + 1

\* stop=stop_after_attempt(max_attempts)
StopAfterAttempt(attempt, cfg) == attempt >= cfg.max_attempts

\* 2 ** n
RECURSIVE Pow2(_)
Pow2(n) == IF n <= 0 THEN 1 ELSE 2 * Pow2(n - 1)

Min(a, b) == IF a <= b THEN a ELSE b
Max(a, b) == IF a >= b THEN a ELSE b

\* wait=wait_exponential(multiplier=base_delay, max=max_delay): min is 0 and
\* exp_base is 2
WaitExponential(attempt, cfg) ==
    Max(0, Min(cfg.base_delay * Pow2(attempt - 1), cfg.max_delay))

\* the error tenacity raises when it stops after a failed attempt; reraise is
\* not passed to retry(), so the last attempt's exception is wrapped
RetryError(fut) == Raised("RetryError", <<"RetryError[">> \o <<fut.cls>> \o <<"]">>, {}, None)

\* a before_sleep hook that logs nothing
BeforeSleepSilent(logged) == logged

\* before_sleep: one logger.warning call, naming the function and the
\* exception of the attempt that failed; logged counts the warnings so far
BeforeSleep(logged) == logged + 1

\* what the retry controller does once an attempt has ended with fut
RetryIter(fut, attempt, cfg) ==
    IF ~RetryPredicate(fut)
    THEN [do |-> "result", result |-> fut, sleep |-> 0]
    ELSE IF StopAfterAttempt(attempt, cfg)
    THEN [do |-> "result", result |-> RetryError(fut), sleep |-> 0]
    ELSE [do |-> "sleep", result |-> fut, sleep |-> WaitExponential(attempt, cfg)]

-----------------------------------------------------------------------------
(* GoogleCalendarClient.get_event and update_event *)

\* what the vendor answers to an events().get or events().update request
EventOutcomes ==
    [kind : {"raise"}, cls : GoogleTransportFailures,
     resp : {[status_code |-> 200, text |-> "", headers |-> EmptyFields]}]
        \cup [kind : {"response"}, cls : {"none"},
              resp : [status_code : StatusCodes, text : BodyTexts, headers : {EmptyFields}]]

\* the answers to the two requests of update_event: a success with an event
\* or with an array, and the failures its except clauses tell apart
UpdateEventOutcomes ==
    {h \in EventOutcomes :
        \/ h.kind = "raise"
        \/ /\ h.resp.status_code \in {200, 401, 403, 404, 500}
           /\ h.resp.text \in {"{items: docs}", "[]"}}

\* the arguments of update_event: whether calendar_id and event_id are
\* non-empty strings, and whether summary and start_time are given
EventArguments == [valid : BOOLEAN, summary : BOOLEAN, start_time : BOOLEAN]

\* the body of get_event, lines 196-215
GetEvent(valid, http) ==
    IF ~valid THEN Raised("ValueError", <<"must be a non-empty string">>, {}, None)
    ELSE LET executed == Execute(http) IN
         IF executed.kind = "return" THEN executed
         ELSE IF executed.cls = "HttpError"
         THEN IF executed.status_code \in {{401}, {403}}
              THEN Raised("AuthenticationError",
                          <<"Authentication failed: ">> \o executed.message, {}, None)
              ELSE IF executed.status_code = {404}
              THEN Raised("APIError", <<"Event not found: ">>, {}, None)
              ELSE Raised("APIError", <<"Failed to get event: ">> \o executed.message,
                          {}, None)
         ELSE Raised("APIError", <<"Unexpected error getting event: ">> \o executed.message,
                     {}, None)

\* self.get_event(...): get_event is itself wrapped by
\* retry_on_failure(max_attempts=3); what its first attempt ends with is what
\* the wrapper ends with unless the retry predicate holds of it
WrappedGetEvent(valid, http) ==
    RetryIter(GetEvent(valid, http), 1,
              [max_attempts |-> 3, base_delay |-> DefaultBaseDelay,
               max_delay |-> DefaultMaxDelay]).result

\* lines 341-349: the assignments into the event that was fetched
AssignFields(args, event) ==
    IF args.summary /\ event.type # "dict"
    THEN Raised("TypeError", <<"object does not support item assignment">>, {}, None)
    ELSE IF args.start_time /\ "start" \notin DOMAIN event.fields
    THEN Raised(IF event.type = "dict" THEN "KeyError" ELSE "TypeError", <<"start">>, {}, None)
    ELSE Returned(event)

\* lines 351-364: the update request and the errors raised in place of its
\* failures
UpdatePhase(http) ==
    LET executed == Execute(http) IN
    IF executed.kind = "return" THEN executed
    ELSE IF executed.cls = "HttpError"
    THEN IF executed.status_code \in {{401}, {403}}
         THEN Raised("AuthenticationError",
                     <<"Authentication failed: ">> \o executed.message, {}, None)
         ELSE Raised("APIError", <<"Failed to update event: ">> \o executed.message,
                     {}, None)
    ELSE Raised("APIError", <<"Unexpected error updating event: ">> \o executed.message,
                {}, None)

\* isinstance(exception, (ConnectionError, Timeout, RetryableError, HTTPError))
IsRetryableError(cls) ==
    IsInstance(cls, {"ConnectionError", "Timeout", "RetryableError", "HTTPError"})

\* Durations returned by get_retry_delay are counted in ticks, TicksPerSecond
\* to the second, so that 0.1 * (1 + fraction) of a whole number of seconds is
\* a whole number of ticks.
TicksPerSecond == 10 * FracSteps

\* a jitter of 0.1 * fraction of the delay, without the 1 +
GetRetryDelayFractionOnly(attempt, base_delay, max_delay, fraction) ==
    LET delay == Min(base_delay * Pow2(attempt - 1), max_delay) IN
    delay * TicksPerSecond + delay * fraction

\* a delay that is capped at max_delay after the jitter is added
GetRetryDelayCappedAfterJitter(attempt, base_delay, max_delay, fraction) ==
    LET delay == base_delay * Pow2(attempt - 1) IN
    Min(delay * TicksPerSecond + delay * (FracSteps + fraction), max_delay * TicksPerSecond)

\* delay = min(base_delay * 2 ** (attempt - 1), max_delay)
\* jitter = delay * 0.1 * (1 + time.time() % 1), the clock's fractional second
\* being fraction / FracSteps
GetRetryDelay(attempt, base_delay, max_delay, fraction) ==
    LET delay  == Min(base_delay * Pow2(attempt - 1), max_delay)
        jitter == delay * (FracSteps + fraction)
    IN  delay * TicksPerSecond + jitter

-----------------------------------------------------------------------------
(* validate_input *)

\* a list that names every required field, absent or not
MissingFieldsAllRequired(data, required_fields) ==
    IF \E i \in DOMAIN required_fields : required_fields[i] \notin DOMAIN data.fields
    THEN required_fields
    ELSE <<>>

\* [field for field in required_fields if field not in data]
MissingFields(data, required_fields) ==
    SelectSeq(required_fields, LAMBDA field : field \notin DOMAIN data.fields)

\* a validation that takes an empty value for a missing field
ValidateInputByTruthiness(data, required_fields, data_type) ==
    IF data.type # "dict"
    THEN Raised("ValidationError", <<data_type, " must be a dictionary">>, {}, None)
    ELSE LET missing_fields ==
                 SelectSeq(required_fields,
                           LAMBDA field : field \notin DOMAIN data.fields
                                            \/ data.fields[field] = "")
         IN  IF missing_fields # <<>>
             THEN Raised("ValidationError",
                         <<"Missing required fields in ", data_type, ": ">> \o missing_fields,
                         {}, None)
             ELSE Returned(None)

\* validate_input(data, required_fields, data_type)
ValidateInput(data, required_fields, data_type) ==
    IF data.type # "dict"
    THEN Raised("ValidationError", <<data_type, " must be a dictionary">>, {}, None)
    ELSE LET missing_fields == MissingFields(data, required_fields) IN
         IF missing_fields # <<>>
         THEN Raised("ValidationError",
                     <<"Missing required fields in ", data_type, ": ">> \o missing_fields,
                     {}, None)
         ELSE Returned(None)

-----------------------------------------------------------------------------
(* One invocation of a wrapped function *)

\* values an arbitrary wrapped callable returns
FuncValues == {JsonObject("value", "a"), JsonObject("value", "b")}

NoHttp ==
    [kind |-> "none", cls |-> "none",
     resp |-> [status_code |-> 200, text |-> "", headers |-> EmptyFields]]

\* what the checks that precede the try block of an operation end with:
\* every operation but list_documents and list_calendars raises ValueError
\* for an argument it refuses, and create_row and update_row call
\* validate_input(row_data, [], "row_data")
ArgumentChecks(operation) ==
    {"ok", "ValueError"}
        \cup (IF operation \in {"CodaClient.create_row", "CodaClient.update_row"}
              THEN {"ValidationError"} ELSE {})

\* one invocation of the body of a checked Coda or GitHub operation
CheckedOperation(operation, check, http) ==
    IF check # "ok"
    THEN [http |-> NoHttp, update |-> NoHttp,
          outcome |-> Raised(check, <<"argument refused">>, {}, None),
          sleeps |-> <<>>, warnings |-> 0]
    ELSE [http |-> http, update |-> NoHttp] @@ ClientOperation(operation, http)

\* the try block and the except clauses of get_calendar, list_events,
\* create_event and delete_event; get_event is GetEvent
CalendarCall(operation, valid, http) ==
    IF operation = "GoogleCalendarClient.get_event" THEN GetEvent(valid, http)
    ELSE IF ~valid THEN Raised("ValueError", <<"argument refused">>, {}, None)
    ELSE LET executed == Execute(http) IN
         IF executed.kind = "return"
         THEN CASE operation = "GoogleCalendarClient.delete_event" ->
                     Returned([type |-> "bool", fields |-> EmptyFields])
                [] operation = "GoogleCalendarClient.list_events" ->
                     IF executed.data.type # "dict"
                     THEN Raised("APIError", <<"Unexpected error listing events: ">>, {}, None)
                     ELSE IF "items" \in DOMAIN executed.data.fields
                          THEN Returned(JsonObject("items", executed.data.fields["items"]))
                          ELSE Returned(JsonArray)
                [] OTHER -> executed
         ELSE IF executed.cls = "HttpError"
         THEN IF executed.status_code \in {{401}, {403}}
              THEN Raised("AuthenticationError",
                          <<"Authentication failed: ">> \o executed.message, {}, None)
              ELSE IF executed.status_code = {404}
                        /\ operation # "GoogleCalendarClient.create_event"
              THEN Raised("APIError", <<"not found: ">>, {}, None)
              ELSE Raised("APIError", <<"Failed: ">> \o executed.message, {}, None)
         ELSE Raised("APIError", <<"Unexpected error: ">> \o executed.message, {}, None)

\* the body of update_event, lines 330-364: the outcome, the get request
\* (http) and the update request (update), NoHttp for a request not issued
UpdateEvent(args, get, update) ==
    LET ends(r, g, u) ==
            [http |-> g, update |-> u, outcome |-> r, sleeps |-> <<>>, warnings |-> 0]
    IN
    IF ~args.valid
    THEN ends(Raised("ValueError", <<"must be a non-empty string">>, {}, None), NoHttp, NoHttp)
    ELSE LET event == WrappedGetEvent(args.valid, get) IN
         IF event.kind = "raise"
         THEN \* except APIError as e: raise APIError(...)
              IF IsInstance(event.cls, {"APIError"})
              THEN ends(Raised("APIError",
                               <<"Could not get event for update: ">> \o event.message,
                               {}, None), get, NoHttp)
              ELSE ends(event, get, NoHttp)
         ELSE LET assigned == AssignFields(args, event.data) IN
              IF assigned.kind = "raise" THEN ends(assigned, get, NoHttp)
              ELSE ends(UpdatePhase(update), get, update)

\* what one invocation of the wrapped function can do
Behaviours(operation, attempt) ==
    IF operation \in ClientOperations
    THEN {[http |-> h, update |-> NoHttp] @@ ClientOperation(operation, h) :
            h \in HttpOutcomes}
    ELSE IF operation \in CalendarOperations
    THEN {[http |-> h, update |-> NoHttp, outcome |-> ListCalendars(h), sleeps |-> <<>>,
           warnings |-> 0] : h \in GoogleOutcomes}
    ELSE IF operation \in EventOperations
    THEN {UpdateEvent(a, g, u) : a \in EventArguments, g \in UpdateEventOutcomes,
                                 u \in UpdateEventOutcomes}
    ELSE IF operation \in CheckedOperations
    THEN {CheckedOperation(operation, "ok", h) : h \in CheckedHttpOutcomes}
            \cup {CheckedOperation(operation, c, NoHttp) :
                    c \in ArgumentChecks(operation) \ {"ok"}}
    ELSE IF operation \in CheckedCalendarOperations
    THEN {[http |-> (IF valid THEN h ELSE NoHttp), update |-> NoHttp,
           outcome |-> CalendarCall(operation, valid, h), sleeps |-> <<>>,
           warnings |-> 0] : valid \in BOOLEAN, h \in UpdateEventOutcomes}
    ELSE {[http |-> NoHttp, update |-> NoHttp, outcome |-> r, sleeps |-> <<>>,
           warnings |-> 0] :
            r \in {Returned(v) : v \in FuncValues}
                  \cup {Raised(c, <<"raised at attempt ", ToString(attempt)>>, {}, None) :
                          c \in ExceptionClasses}}

Sleeps(why, seconds) == [i \in DOMAIN seconds |-> [why |-> why, seconds |-> seconds[i]]]

InitRetry ==
    /\ pc = "idle"
    /\ op = "none"
    /\ config = [max_attempts |-> DefaultMaxAttempts, base_delay |-> DefaultBaseDelay,
                 max_delay |-> DefaultMaxDelay]
    /\ attempt_number = 1
    /\ calls = 0
    /\ history = <<>>
    /\ result = Pending
    /\ pending_wait = 0
    /\ slept = <<>>
    /\ warnings = 0
    /\ requests_sent = 0
    /\ caller = "none"
    /\ connection = "untested"

InitClassifyIdle ==
    /\ response = [status_code |-> 200, text |-> "", headers |-> EmptyFields]
    /\ service = "Coda"
    /\ classified = Pending

InitCooldownIdle ==
    /\ cd_pc = "start"
    /\ cd_slept = <<>>
    /\ cd_warnings = 0
    /\ cd_outcome = Pending

InitHelpersIdle ==
    /\ h_exception = "none"
    /\ h_retryable = {}
    /\ h_delay_in = [attempt |-> 1, base_delay |-> DefaultBaseDelay,
                     max_delay |-> DefaultMaxDelay, fraction |-> 0]
    /\ h_delay = {}

InitValidateIdle ==
    /\ v_data = None
    /\ v_required = <<>>
    /\ v_outcome = Pending

InitThreadsIdle == threads = <<>>

InitErrorsIdle ==
    /\ e_args = [cls |-> "APIError", message |-> <<>>, given |-> {}, status_code |-> {},
                 response |-> None]
    /\ e_error = {}

Init ==
    /\ InitRetry /\ InitClassifyIdle /\ InitCooldownIdle /\ InitHelpersIdle
    /\ InitValidateIdle /\ InitThreadsIdle
    /\ InitErrorsIdle

\* who calls a wrapped function: its user, or the client's test_connection,
\* whose probe is list_documents, get_user_info or list_calendars
Callers(operation) ==
    IF operation \in ClientOperations \cup CalendarOperations
    THEN {"direct", "test_connection"}
    ELSE {"direct"}

\* the caller calls the wrapped function
Call(operation, cfg, who) ==
    /\ pc = "idle"
    /\ pc' = "attempting"
    /\ op' = operation
    /\ config' = cfg
    /\ caller' = who
    /\ attempt_number' = 1
    /\ UNCHANGED <<calls, history, result, pending_wait, slept, warnings, requests_sent,
                   connection>>
    /\ UNCHANGED <<classifyVars, cooldownVars, helperVars, validateVars, threads, errorVars>>

\* the wrapper invokes the function; the retry controller decides what follows
Attempt ==
    /\ pc = "attempting"
    /\ \E b \in Behaviours(op, attempt_number) :
         LET next == RetryIter(b.outcome, attempt_number, config) IN
         /\ calls' = calls + 1
         /\ history' = Append(history, [outcome |-> b.outcome, http |-> b.http,
                                        update |-> b.update])
         /\ requests_sent' = requests_sent + (IF b.http.kind = "none" THEN 0 ELSE 1)
                                            + (IF b.update.kind = "none" THEN 0 ELSE 1)
         /\ slept' = slept \o Sleeps("cooldown", b.sleeps)
         /\ IF next.do = "sleep"
            THEN /\ pc' = "sleeping"
                 /\ pending_wait' = next.sleep
                 /\ warnings' = BeforeSleep(warnings + b.warnings)
                 /\ result' = result
            ELSE /\ pc' = IF next.result.kind = "return" THEN "done" ELSE "failed"
                 /\ pending_wait' = pending_wait
                 /\ warnings' = warnings + b.warnings
                 /\ result' = next.result
    /\ UNCHANGED <<op, config, attempt_number, caller, connection>>
    /\ UNCHANGED <<classifyVars, cooldownVars, helperVars, validateVars, threads, errorVars>>

\* the wait between two attempts
Sleep ==
    /\ pc = "sleeping"
    /\ slept' = Append(slept, [why |-> "backoff", seconds |-> pending_wait])
    /\ attempt_number' = attempt_number + 1
    /\ pc' = "attempting"
    /\ UNCHANGED <<op, config, calls, history, result, pending_wait, warnings, requests_sent,
                   caller, connection>>
    /\ UNCHANGED <<classifyVars, cooldownVars, helperVars, validateVars, threads, errorVars>>

\* test_connection: True when the probe returned, False when it raised an
\* Exception (every class modelled is one)
TestConnection(probe) == IF probe.kind = "return" THEN "True" ELSE "False"

\* the probe has ended and test_connection returns
TestConnectionReturn ==
    /\ caller = "test_connection"
    /\ pc \in {"done", "failed"}
    /\ connection = "untested"
    /\ connection' = TestConnection(result)
    /\ UNCHANGED <<pc, op, config, attempt_number, calls, history, result, pending_wait,
                   slept, warnings, requests_sent, caller>>
    /\ UNCHANGED <<classifyVars, cooldownVars, helperVars, validateVars, threads, errorVars>>

Operations == {"func"} \cup DecoratedOperations

Next ==
    \/ \E operation \in Operations : \E cfg \in RetryConfigs(operation) :
         \E who \in Callers(operation) : Call(operation, cfg, who)
    \/ Attempt
    \/ Sleep
    \/ TestConnectionReturn

Spec == Init /\ [][Next]_vars

\* Spec, when every attempt ends (the wrapped function returns or raises) and
\* every time.sleep between two attempts ends
SpecFair == Spec /\ WF_vars(Attempt) /\ WF_vars(Sleep)

-----------------------------------------------------------------------------
(* handle_response applied to one response *)

InitClassify ==
    /\ InitRetry /\ InitCooldownIdle /\ InitHelpersIdle /\ InitValidateIdle /\ InitThreadsIdle
    /\ InitErrorsIdle
    /\ response \in Responses
    /\ service \in Services
    /\ classified = Pending

Classify ==
    /\ classified.kind = "pending"
    /\ classified' = HandleResponse(response, service)
    /\ UNCHANGED <<response, service>>
    /\ UNCHANGED <<retryVars, cooldownVars, helperVars, validateVars, threads, errorVars>>

NextClassify == Classify

SpecClassify == InitClassify /\ [][NextClassify]_vars

-----------------------------------------------------------------------------
(* handle_rate_limit applied to one response *)

InitCooldown ==
    /\ InitRetry /\ InitCooldownIdle /\ InitHelpersIdle /\ InitValidateIdle /\ InitThreadsIdle
    /\ InitErrorsIdle
    /\ response \in Responses
    /\ service \in Services
    /\ classified = Pending

\* lines 193-202: the header is read, the warning logged and the sleep made
CooldownEnter ==
    /\ cd_pc = "start"
    /\ LET entry == CooldownEntry(response, service) IN
       /\ cd_slept' = entry.sleeps
       /\ cd_warnings' = entry.warnings
       /\ cd_outcome' = entry.outcome
       /\ cd_pc' = IF entry.outcome.kind = "pending" THEN "slept" ELSE "ended"
    /\ UNCHANGED <<retryVars, classifyVars, helperVars, validateVars, threads, errorVars>>

\* line 204: the raise statement after the sleep
CooldownRaise ==
    /\ cd_pc = "slept"
    /\ cd_outcome' = RateLimitRaise(response, service)
    /\ cd_pc' = "ended"
    /\ UNCHANGED <<cd_slept, cd_warnings>>
    /\ UNCHANGED <<retryVars, classifyVars, helperVars, validateVars, threads, errorVars>>

NextCooldown == CooldownEnter \/ CooldownRaise

SpecCooldown == InitCooldown /\ [][NextCooldown]_vars

-----------------------------------------------------------------------------
(* is_retryable_error and get_retry_delay applied to one input each *)

DelayInputs ==
    [attempt    : 1..MaxDelayAttempt,
     base_delay : {DefaultBaseDelay, 2},
     max_delay  : {3, DefaultMaxDelay},
     fraction   : 0..(FracSteps - 1)]

\* h_retryable and h_delay hold the value returned, and nothing before the call
InitHelpers ==
    /\ InitRetry /\ InitClassifyIdle /\ InitCooldownIdle /\ InitValidateIdle /\ InitThreadsIdle
    /\ InitErrorsIdle
    /\ h_exception \in ExceptionClasses
    /\ h_retryable = {}
    /\ h_delay_in \in DelayInputs
    /\ h_delay = {}

CheckRetryable ==
    /\ h_retryable = {}
    /\ h_retryable' = {IsRetryableError(h_exception)}
    /\ UNCHANGED <<h_exception, h_delay_in, h_delay>>
    /\ UNCHANGED <<retryVars, classifyVars, cooldownVars, validateVars, threads, errorVars>>

ComputeDelay ==
    /\ h_delay = {}
    /\ h_delay' = {GetRetryDelay(h_delay_in.attempt, h_delay_in.base_delay,
                                 h_delay_in.max_delay, h_delay_in.fraction)}
    /\ UNCHANGED <<h_exception, h_retryable, h_delay_in>>
    /\ UNCHANGED <<retryVars, classifyVars, cooldownVars, validateVars, threads, errorVars>>

NextHelpers == CheckRetryable \/ ComputeDelay

SpecHelpers == InitHelpers /\ [][NextHelpers]_vars

-----------------------------------------------------------------------------
(* validate_input applied to one input *)

FieldNames == {"name", "email", "id"}

\* dictionaries over the field names, with values that are all non-empty or
\* all empty, and values that are not dictionaries
DataValues ==
    {[type |-> "dict", fields |-> [k \in present |-> value]] :
        present \in SUBSET FieldNames, value \in {"x", ""}}
        \cup {None, JsonArray, [type |-> "str", fields |-> EmptyFields]}

RequiredFieldLists == UNION {[1..n -> FieldNames] : n \in 0..MaxRequired}

InitValidate ==
    /\ InitRetry /\ InitClassifyIdle /\ InitCooldownIdle /\ InitHelpersIdle /\ InitThreadsIdle
    /\ InitErrorsIdle
    /\ v_data \in DataValues
    /\ v_required \in RequiredFieldLists
    /\ v_outcome = Pending

Validate ==
    /\ v_outcome.kind = "pending"
    /\ v_outcome' = ValidateInput(v_data, v_required, "input")
    /\ UNCHANGED <<v_data, v_required>>
    /\ UNCHANGED <<retryVars, classifyVars, cooldownVars, helperVars, threads, errorVars>>

NextValidate == Validate

SpecValidate == InitValidate /\ [][NextValidate]_vars

-----------------------------------------------------------------------------
(* Two threads calling one wrapped function (SpecThreads) *)

ThreadIds == 1..NumThreads

\* what one invocation of the wrapped function does on a thread
ThreadOutcomes(attempt) ==
    {Returned(JsonObject("value", "a")),
     Raised("Timeout", <<"raised at attempt ", ToString(attempt)>>, {}, None),
     Raised("AuthenticationError", <<"raised at attempt ", ToString(attempt)>>, {401}, None)}

\* a thread that has not called the wrapper yet
IdleThread ==
    [pc |-> "idle", attempt_number |-> 1, calls |-> 0, history |-> <<>>,
     result |-> Pending, slept |-> <<>>]

\* the decoration site builds one retry controller; the threads share it
ThreadConfigs ==
    [max_attempts : 1..MaxAttemptsBound, base_delay : {DefaultBaseDelay},
     max_delay : {DefaultMaxDelay}]

InitThreads ==
    /\ pc = "idle"
    /\ op = "func"
    /\ config \in ThreadConfigs
    /\ attempt_number = 1
    /\ calls = 0
    /\ history = <<>>
    /\ result = Pending
    /\ pending_wait = 0
    /\ slept = <<>>
    /\ warnings = 0
    /\ requests_sent = 0
    /\ caller = "none"
    /\ connection = "untested"
    /\ InitClassifyIdle /\ InitCooldownIdle /\ InitHelpersIdle /\ InitValidateIdle
    /\ InitErrorsIdle
    /\ threads = [t \in ThreadIds |-> IdleThread]

\* a controller that counts attempts on the shared retry object: every
\* attempt made through the wrapper so far
AttemptNumberShared(ts, t) ==
    LET RECURSIVE Total(_)
        Total(n) == IF n = 0 THEN 0 ELSE ts[n].calls + Total(n - 1)
    IN  Total(NumThreads) + 1

\* the attempt number the controller reads for thread t's call: wrapper()
\* starts a retry state of its own for each call, at attempt 1
AttemptNumberOf(ts, t) == ts[t].attempt_number

\* thread t calls the wrapped function
ThreadCall(t) ==
    /\ threads[t].pc = "idle"
    /\ threads' = [threads EXCEPT ![t].pc = "attempting", ![t].attempt_number = 1]
    /\ UNCHANGED <<retryVars, classifyVars, cooldownVars, helperVars, validateVars, errorVars>>

\* thread t's wrapper invokes the function; the controller decides what follows
ThreadAttempt(t) ==
    /\ threads[t].pc = "attempting"
    /\ \E fut \in ThreadOutcomes(threads[t].attempt_number) :
         LET next == RetryIter(fut, AttemptNumberOf(threads, t), config) IN
         threads' = [threads EXCEPT
             ![t].calls = @ + 1,
             ![t].history = Append(@, fut),
             ![t].pc = IF next.do = "sleep" THEN "sleeping"
                       ELSE IF next.result.kind = "return" THEN "done" ELSE "failed",
             ![t].result = IF next.do = "sleep" THEN @ ELSE next.result,
             ![t].slept = IF next.do = "sleep" THEN Append(@, next.sleep) ELSE @]
    /\ UNCHANGED <<retryVars, classifyVars, cooldownVars, helperVars, validateVars, errorVars>>

\* thread t's wait between two attempts ends
ThreadSleep(t) ==
    /\ threads[t].pc = "sleeping"
    /\ threads' = [threads EXCEPT ![t].pc = "attempting", ![t].attempt_number = @ + 1]
    /\ UNCHANGED <<retryVars, classifyVars, cooldownVars, helperVars, validateVars, errorVars>>

NextThreads ==
    \/ \E t \in ThreadIds : ThreadCall(t)
    \/ \E t \in ThreadIds : ThreadAttempt(t)
    \/ \E t \in ThreadIds : ThreadSleep(t)

SpecThreads == InitThreads /\ [][NextThreads]_vars

-----------------------------------------------------------------------------
(* APIError and its subclasses (SpecErrors) *)

\* the text of a tuple of values, as Python writes it
RECURSIVE TupleText(_)
TupleText(args) ==
    IF Len(args) = 0 THEN <<>>
    ELSE IF Len(args) = 1 THEN args[1]
    ELSE args[1] \o <<", ">> \o TupleText(Tail(args))

\* BaseException.__str__: empty without args, the text of the only arg when
\* there is one, the text of the args tuple otherwise
ExceptionStr(args) ==
    IF Len(args) = 0 THEN <<>>
    ELSE IF Len(args) = 1 THEN args[1]
    ELSE <<"(">> \o TupleText(args) \o <<")">>

\* the text of a status_code and of a response value
StatusText(code) == IF code = {} THEN <<"None">> ELSE <<ToString(CHOOSE x \in code : TRUE)>>

BodyText(body) == IF body = None THEN <<"None">> ELSE <<"{...}">>

\* a constructor that hands every argument to Exception.__init__
APIErrorInitAllArgs(cls, message, given, status, body_given) ==
    LET code == IF "status_code" \in given THEN status ELSE {}
        body == IF "response" \in given THEN body_given ELSE None
    IN  [cls |-> cls, message |-> message, status_code |-> code, response |-> body,
         args |-> <<message, StatusText(code), BodyText(body)>>]

\* APIError.__init__(message, status_code=None, response=None), inherited
\* unchanged by the four subclasses; given names the optional arguments the
\* caller passes, and status and body_given are read only when given
APIErrorInit(cls, message, given, status, body_given) ==
    LET code == IF "status_code" \in given THEN status ELSE {}
        body == IF "response" \in given THEN body_given ELSE None
    IN  [cls |-> cls, message |-> message, status_code |-> code, response |-> body,
         args |-> <<message>>]

ErrorMessages == {<<"Test API error">>, <<"Test validation error">>, <<"">>}

ErrorStatusCodes == {{}, {400}, {401}, {429}}

ErrorResponses == {None, JsonObject("message", "test"), JsonObject("message", "unauthorized")}

InitErrors ==
    /\ InitRetry /\ InitClassifyIdle /\ InitCooldownIdle /\ InitHelpersIdle
    /\ InitValidateIdle /\ InitThreadsIdle
    /\ e_args \in [cls : APIErrorClasses, message : ErrorMessages,
                   given : SUBSET {"status_code", "response"},
                   status_code : ErrorStatusCodes, response : ErrorResponses]
    /\ e_error = {}

\* the class is called with the arguments
Construct ==
    /\ e_error = {}
    /\ e_error' = {APIErrorInit(e_args.cls, e_args.message, e_args.given,
                                e_args.status_code, e_args.response)}
    /\ UNCHANGED <<e_args, retryVars, classifyVars, cooldownVars, helperVars,
                   validateVars, threads>>

NextErrors == Construct

SpecErrors == InitErrors /\ [][NextErrors]_vars

-----------------------------------------------------------------------------
(* Properties of the retry wrapper (Spec) *)

Terminal == pc \in {"done", "failed"}

IsTimeout(entry) == entry.outcome.kind = "raise" /\ IsInstance(entry.outcome.cls, {"Timeout"})

\* the failures the retry policy is specified to retry
SpecRetryable(entry) ==
    /\ entry.outcome.kind = "raise"
    /\ IsInstance(entry.outcome.cls, {"ConnectionError", "Timeout", "RetryableError"})

BackoffSleeps == {i \in DOMAIN slept : slept[i].why = "backoff"}

\* C1: with max_attempts = 3, when the operation raises a transport timeout
\* on attempts 1 and 2 the wrapper does not give up before attempt 3, and when
\* attempt 3 then succeeds the wrapper returns the result of attempt 3 and the
\* operation has been invoked exactly 3 times.
C1_TimeoutTwiceThenSuccess ==
    (config.max_attempts = 3 /\ Len(history) >= 1
        /\ \A i \in 1..Min(2, Len(history)) : IsTimeout(history[i]))
    => /\ Len(history) \in {1, 2} => (pc \in {"sleeping", "attempting"} /\ result = Pending)
       /\ (Len(history) >= 3 /\ history[3].outcome.kind = "return")
            => /\ pc = "done"
               /\ result = history[3].outcome
               /\ calls = 3
               /\ Len(history) = 3

C1_Witness ==
    /\ config.max_attempts = 3
    /\ pc = "done"
    /\ calls = 3
    /\ IsTimeout(history[1]) /\ IsTimeout(history[2])
    /\ history[3].outcome.kind = "return"
    /\ result = history[3].outcome

\* C2: with max_attempts = N, when every attempt raises a retryable error the
\* operation is invoked exactly N times and the error of the last attempt
\* itself reaches the caller, unchanged and not wrapped.
C2_ExhaustedPropagatesLastError ==
    (Terminal /\ Len(history) >= 1 /\ \A i \in DOMAIN history : SpecRetryable(history[i]))
    => /\ calls = config.max_attempts
       /\ result = history[Len(history)].outcome

\* C3: an operation that raises AuthenticationError is invoked exactly once,
\* no backoff sleep occurs, and the AuthenticationError reaches the caller.
C3_AuthenticationNotRetried ==
    (Len(history) >= 1 /\ history[1].outcome.kind = "raise"
        /\ history[1].outcome.cls = "AuthenticationError")
    => /\ pc = "failed"
       /\ calls = 1
       /\ Len(history) = 1
       /\ BackoffSleeps = {}
       /\ result = history[1].outcome

C3_Witness ==
    /\ pc = "failed"
    /\ calls = 1
    /\ result.cls = "AuthenticationError"
    /\ history[1].outcome.cls = "AuthenticationError"

\* C4: an error of any kind other than connection error, timeout and
\* RetryableError ends the invocation where it occurs and reaches the caller
\* (after exactly one invocation when it occurs on the first attempt); a
\* second invocation happens only after a connection error, a timeout or a
\* RetryableError.
C4_OnlyTransientErrorsRetried ==
    /\ \A i \in DOMAIN history :
         (history[i].outcome.kind = "raise" /\ ~SpecRetryable(history[i]))
         => /\ i = Len(history)
            /\ calls = i
            /\ pc = "failed"
            /\ result = history[i].outcome
    /\ \A i \in DOMAIN history : i < Len(history) => SpecRetryable(history[i])
    /\ (pc = "sleeping" => SpecRetryable(history[Len(history)]))

C4_Witness ==
    /\ pc = "failed"
    /\ calls = 1
    /\ history[1].outcome.cls \in {"RateLimitError", "ValidationError", "APIError", "HTTPError"}
    /\ result = history[1].outcome

\* C5: in a client operation, a connection error or timeout raised by the
\* HTTP request is retried: when every request fails that way, the operation
\* has been invoked max_attempts = 3 times by the time the failure surfaces.
C5_TransportFailureRetriedInClient ==
    (op \in ClientOperations /\ Terminal /\ Len(history) >= 1
        /\ \A i \in DOMAIN history : history[i].http.kind = "raise")
    => calls = 3

WellFormedSuccess(http) ==
    /\ http.kind = "response"
    /\ http.resp.status_code = 200
    /\ Decodable(http.resp.text)
    /\ JsonDecode(http.resp.text).type = "dict"

\* C6: in a client operation, a response with status 200 and a well-formed
\* body passes the rate-limit cooldown and the classifier without error and
\* the operation returns the data derived from the parsed body.
C6_SuccessResponseReturnsData ==
    (op \in ClientOperations /\ Len(history) >= 1 /\ WellFormedSuccess(history[1].http))
    => /\ pc = "done"
       /\ result = ReturnValue(op, JsonDecode(history[1].http.resp.text))

-----------------------------------------------------------------------------
(* Properties of handle_response (SpecClassify) *)

Classified == classified.kind # "pending"

\* C7: for every status code in 200..299 (and a well-formed body),
\* handle_response returns the parsed body and does not raise.
C7_SuccessRangeReturnsBody ==
    (Classified /\ response.status_code \in 200..299 /\ Decodable(response.text))
    => classified = Returned(JsonDecode(response.text))

\* C8: for every response with status 401 or 403, handle_response raises
\* AuthenticationError whose status_code is the status of the response.
C8_AuthenticationStatus ==
    (Classified /\ response.status_code \in {401, 403})
    => /\ classified.kind = "raise"
       /\ classified.cls = "AuthenticationError"
       /\ classified.status_code = {response.status_code}

\* C9: for every non-2xx status other than 401, 403 and 429, handle_response
\* raises the generic APIError with the status of the response, and its
\* message contains the status code and the `message` field of the decoded
\* body when there is one.
C9_GenericErrorStatus ==
    (Classified /\ response.status_code \notin (200..299) \cup {401, 403, 429})
    => /\ classified.kind = "raise"
       /\ classified.cls = "APIError"
       /\ classified.status_code = {response.status_code}
       /\ Contains(classified.message, ToString(response.status_code))
       /\ (Decodable(response.text) /\ JsonDecode(response.text).type = "dict"
             /\ "message" \in DOMAIN JsonDecode(response.text).fields)
           => Contains(classified.message, JsonDecode(response.text).fields["message"])

\* C10: for every non-2xx response, the error raised is AuthenticationError,
\* RateLimitError or APIError and carries response_body equal to the parsed
\* body when the body decodes and to {"message": raw_text} when it does not.
C10_BodyCapture ==
    (Classified /\ response.status_code \notin 200..299)
    => /\ classified.kind = "raise"
       /\ classified.cls \in {"AuthenticationError", "RateLimitError", "APIError"}
       /\ classified.response =
            IF Decodable(response.text) THEN JsonDecode(response.text)
            ELSE JsonObject("message", response.text)

-----------------------------------------------------------------------------
(* Properties of handle_rate_limit (SpecCooldown) *)

\* the wait the cooldown is specified to make for a 429 response
SpecCooldownWait ==
    IF "Retry-After" \in DOMAIN response.headers
          /\ response.headers["Retry-After"] \in {"30", "120"}
    THEN IntOf(response.headers["Retry-After"])
    ELSE 60

\* C11: on a 429 response handle_rate_limit sleeps exactly the Retry-After
\* value when the header is an integer and exactly 60 seconds in every other
\* case (absent, empty, not an integer), and the sleep is complete when the
\* RateLimitError surfaces.
C11_CooldownSleepsThenRaises ==
    /\ (response.status_code = 429 /\ cd_pc = "ended") => cd_slept = <<SpecCooldownWait>>
    /\ (cd_outcome.kind = "raise" /\ cd_outcome.cls = "RateLimitError")
         => cd_slept = <<SpecCooldownWait>>

\* C12: on a 429 response handle_rate_limit always ends by raising
\* RateLimitError with status_code 429, whatever the header and the body are.
C12_CooldownAlwaysRateLimitError ==
    (response.status_code = 429 /\ cd_pc = "ended")
    => /\ cd_outcome.kind = "raise"
       /\ cd_outcome.cls = "RateLimitError"
       /\ cd_outcome.status_code = {429}

-----------------------------------------------------------------------------
(* Properties of the backoff delay and of the retryable classes *)

DefaultDelayArguments ==
    h_delay_in.base_delay = 1 /\ h_delay_in.max_delay = 60

\* C13 as stated: with base_delay = 1.0 and max_delay = 60.0 the delay
\* preceding attempt 2 lies in [1.0, 1.1) seconds and the delay preceding
\* attempt 3 lies in [2.0, 2.2) seconds, for every fractional second.
C13_DelayWithinTenPercent ==
    \A d \in h_delay :
      DefaultDelayArguments =>
        /\ h_delay_in.attempt = 1 => (10 * FracSteps <= d /\ d < 11 * FracSteps)
        /\ h_delay_in.attempt = 2 => (20 * FracSteps <= d /\ d < 22 * FracSteps)

\* C13 as amended: with base_delay = 1.0 and max_delay = 60.0 the delay
\* preceding attempt 2 (get_retry_delay(1)) lies in [1.1, 1.2) seconds and
\* the delay preceding attempt 3 (get_retry_delay(2)) lies in [2.2, 2.4)
\* seconds, for every fractional second.
C13_DelayTenToTwentyPercent ==
    \A d \in h_delay :
      DefaultDelayArguments =>
        /\ h_delay_in.attempt = 1 => (11 * FracSteps <= d /\ d < 12 * FracSteps)
        /\ h_delay_in.attempt = 2 => (22 * FracSteps <= d /\ d < 24 * FracSteps)

C13_Witness ==
    /\ h_delay # {}
    /\ DefaultDelayArguments
    /\ h_delay_in.attempt = 2
    /\ h_delay_in.fraction = FracSteps - 1

BackoffSeq == SelectSeq(slept, LAMBDA e : e.why = "backoff")

\* C14: the sleep the retry wrapper makes after attempt k is the backoff
\* delay with jitter: min(base_delay * 2^(k-1), max_delay) plus the jitter of
\* get_retry_delay, for some fractional second of the clock.
C14_WrapperSleepsWithJitter ==
    \A k \in DOMAIN BackoffSeq :
      \E f \in 0..(FracSteps - 1) :
        BackoffSeq[k].seconds * TicksPerSecond
            = GetRetryDelay(k, config.base_delay, config.max_delay, f)

\* C15: is_retryable_error returns true exactly for connection errors,
\* timeouts and RetryableError, and agrees on every exception with what the
\* retry wrapper retries.
C15_RetryableClassesAgree ==
    \A answer \in h_retryable :
      /\ answer = IsInstance(h_exception, {"ConnectionError", "Timeout", "RetryableError"})
      /\ answer = RetryPredicate(Raised(h_exception, <<>>, {}, None))

-----------------------------------------------------------------------------
(* Properties of the errors raised by the clients and of test_connection *)

\* C16: every AuthenticationError raised by the repository has status_code
\* 401 or 403 and every RateLimitError has status_code 429; here, those the
\* client operations raise.
C16_ErrorKindStatus ==
    \A i \in DOMAIN history :
      (op # "func" /\ history[i].outcome.kind = "raise")
      => /\ history[i].outcome.cls = "AuthenticationError"
              => history[i].outcome.status_code \in {{401}, {403}}
         /\ history[i].outcome.cls = "RateLimitError"
              => history[i].outcome.status_code = {429}

\* C20: test_connection returns True when the vendor answers the probe with
\* 200 and a well-formed body, and False when the vendor answers with an
\* error status or the request fails.
C20_TestConnectionReflectsProbe ==
    (caller = "test_connection" /\ connection # "untested")
    => LET probe == history[Len(history)].http IN
       /\ WellFormedSuccess(probe) => connection = "True"
       /\ (probe.kind = "raise" \/ probe.resp.status_code >= 300) => connection = "False"

-----------------------------------------------------------------------------
(* Properties of validate_input (SpecValidate) *)

Validated == v_outcome.kind # "pending"

\* the positions of required_fields whose name is absent from data
AbsentPositions == {i \in DOMAIN v_required : v_required[i] \notin DOMAIN v_data.fields}

\* C17: validate_input raises ValidationError if and only if data is not a
\* mapping or some name of required_fields is absent from data; otherwise it
\* returns None.
C17_ValidationErrorIff ==
    Validated =>
      IF v_data.type # "dict" \/ AbsentPositions # {}
      THEN v_outcome.kind = "raise" /\ v_outcome.cls = "ValidationError"
      ELSE v_outcome = Returned(None)

C17_Witness ==
    /\ Validated
    /\ v_data.type = "dict"
    /\ \E k \in DOMAIN v_data.fields : v_data.fields[k] = ""
    /\ AbsentPositions = {}
    /\ Len(v_required) = 2
    /\ v_outcome = Returned(None)

\* the names the error message lists, after its three leading pieces
ListedFields == SubSeq(v_outcome.message, 4, Len(v_outcome.message))

LastEntry == history[Len(history)]

\* what holds of the wrapper's position in every state
RetryStateInvariant ==
    /\ attempt_number >= 1
    /\ attempt_number <= config.max_attempts
    /\ calls = Len(history)
    /\ Cardinality(BackoffSleeps) = attempt_number - 1
    /\ pc \in {"idle", "attempting"} => calls = attempt_number - 1
    /\ pc \in {"sleeping", "done", "failed"} => calls = attempt_number
    /\ pc = "sleeping" => SpecRetryable(LastEntry) /\ attempt_number < config.max_attempts
    /\ pc = "done" => LastEntry.outcome.kind = "return"
    /\ pc = "failed" =>
          /\ LastEntry.outcome.kind = "raise"
          /\ SpecRetryable(LastEntry) => attempt_number = config.max_attempts
    /\ \A i \in 1..(Len(history) - 1) : SpecRetryable(history[i])

\* what holds of every step
RetryStateStep ==
    /\ attempt_number' # attempt_number =>
          pc = "sleeping" /\ attempt_number' = attempt_number + 1
    /\ pc = "sleeping" /\ pc' # pc =>
          /\ pc' = "attempting" /\ attempt_number' = attempt_number + 1
          /\ calls' = calls
          /\ BackoffSeq' = Append(BackoffSeq, [why |-> "backoff", seconds |-> pending_wait])
    /\ pc # "sleeping" => BackoffSeq' = BackoffSeq
    /\ pc = "attempting" /\ pc' # pc => calls' = calls + 1
    /\ Terminal => UNCHANGED <<pc, attempt_number, calls, history, slept, result>>

\* C22: in one invocation the attempt number starts at 1, grows by exactly 1
\* per retry and never exceeds max_attempts; a backoff sleep happens only
\* after a retryable failure at an attempt n < max_attempts and is followed by
\* attempt n+1; nothing follows a success, a non-retryable failure or a
\* retryable failure at attempt max_attempts.
C22_RetryStateMachine == []RetryStateInvariant /\ [][RetryStateStep]_vars

\* C22 witness: a second backoff sleep is in progress after the retryable
\* failure of attempt 2, with attempts left.
C22_Witness ==
    /\ pc = "sleeping" /\ attempt_number = 2 /\ config.max_attempts > 2
    /\ SpecRetryable(history[1]) /\ SpecRetryable(history[2])
    /\ Cardinality(BackoffSleeps) = 1

\* C23: for every positive max_attempts, when each attempt ends, an
\* invocation of the wrapper reaches done or failed, and the operation is
\* invoked at most max_attempts times, the first time included.
C23_RetryTerminates ==
    /\ (pc # "idle") ~> Terminal
    /\ [](calls <= config.max_attempts)

\* C23 witness: an invocation that ended after using every one of at least
\* three attempts.
C23_Witness ==
    /\ pc = "failed" /\ config.max_attempts >= 3
    /\ calls = config.max_attempts
    /\ SpecRetryable(LastEntry)

OwnCourse(th) ==
    LET n == th.calls
        last == th.history[n]
    IN
    /\ n = Len(th.history)
    /\ n <= config.max_attempts
    /\ th.pc = "idle" => n = 0
    /\ th.pc = "attempting" => th.attempt_number = n + 1 /\ n < config.max_attempts
    /\ th.pc \in {"sleeping", "done", "failed"} => th.attempt_number = n /\ n >= 1
    /\ \A i \in 1..(n - 1) : RetryPredicate(th.history[i])
    /\ th.pc = "attempting" /\ n >= 1 => RetryPredicate(last)
    /\ th.pc = "sleeping" => RetryPredicate(last) /\ n < config.max_attempts
    /\ th.pc = "done" => last.kind = "return" /\ th.result = last
    /\ th.pc = "failed" =>
          \/ ~RetryPredicate(last) /\ last.kind = "raise" /\ th.result = last
          \/ RetryPredicate(last) /\ n = config.max_attempts
    /\ Len(th.slept) = (IF th.pc \in {"done", "failed"} THEN n - 1 ELSE n)

\* C19: when several threads call one wrapped function at the same time, each
\* call counts its own attempts from 1, makes at most max_attempts attempts,
\* and ends on its own first success or non-retryable failure (or its own
\* max_attempts-th retryable failure), whatever the other calls are doing.
C19_ThreadsIndependent == \A t \in ThreadIds : OwnCourse(threads[t])

\* C19 witness: thread 1 used all three attempts and failed while thread 2,
\* running at the same time, succeeded at its second attempt.
C19_Witness ==
    /\ config.max_attempts = 3
    /\ threads[1].pc = "failed" /\ threads[1].calls = 3
    /\ threads[2].pc = "done" /\ threads[2].calls = 2

(* GoogleCalendarClient.update_event (Spec) *)

\* the vendor answered the request with 401 or 403
Unauthorized(http) == http.kind = "response" /\ http.resp.status_code \in {401, 403}

\* the get phase of an invocation did not produce an event
GetPhaseFailed(entry) ==
    entry.http.kind # "none" /\ WrappedGetEvent(TRUE, entry.http).kind = "raise"

UpdateAuthenticationInUpdatePhase ==
    op \in EventOperations =>
        \A i \in DOMAIN history :
            Unauthorized(history[i].update) =>
                /\ history[i].outcome.kind = "raise"
                /\ history[i].outcome.cls = "AuthenticationError"

UpdateNotIssuedAfterFailedGet ==
    op \in EventOperations =>
        \A i \in DOMAIN history :
            GetPhaseFailed(history[i]) => history[i].update.kind = "none"

\* C26: update_event raises AuthenticationError whenever the vendor answers
\* 401 or 403, in its get_event phase as well as in its update phase, and
\* issues no update request when the get_event phase failed.
C26_UpdateEventAuthentication ==
    /\ op \in EventOperations =>
          \A i \in DOMAIN history :
              Unauthorized(history[i].http) =>
                  /\ history[i].outcome.kind = "raise"
                  /\ history[i].outcome.cls = "AuthenticationError"
    /\ UpdateAuthenticationInUpdatePhase
    /\ UpdateNotIssuedAfterFailedGet

\* the vendor answered the request with 429
RateLimited(http) == http.kind = "response" /\ http.resp.status_code = 429

\* C27: a 429 answer is a permanent failure for one call of a wrapped client
\* operation: the body runs exactly once, the cooldown sleep happens at most
\* once, and RateLimitError reaches the caller with no backoff sleep and no
\* second request.
C27_RateLimitIsPermanent ==
    (op \in ClientOperations /\ Len(history) >= 1 /\ RateLimited(history[1].http))
    => /\ pc = "failed"
       /\ calls = 1
       /\ requests_sent = 1
       /\ BackoffSleeps = {}
       /\ Len(slept) <= 1
       /\ result.cls = "RateLimitError"

(* handle_rate_limit on other statuses (SpecCooldown) *)

\* C28: handle_rate_limit leaves a response whose status is not 429 alone: it
\* does not sleep, does not log, does not raise and returns None, whatever
\* headers, Retry-After included, the response carries.
C28_OtherStatusUntouched ==
    response.status_code # 429
    => /\ cd_slept = <<>>
       /\ cd_warnings = 0
       /\ cd_pc # "slept"
       /\ cd_outcome.kind # "raise"
       /\ cd_pc = "ended" => cd_outcome = Returned(None)

\* C28 witness: handle_rate_limit has returned for a 503 response that
\* carries Retry-After: 30.
C28_Witness ==
    /\ cd_pc = "ended"
    /\ response.status_code = 503
    /\ RetryAfterPresent(response) /\ response.headers["Retry-After"] = "30"
    /\ cd_outcome = Returned(None)

(* The range and growth of get_retry_delay (SpecHelpers) *)

\* d: the exponential delay of an attempt, capped, before jitter
CappedDelay(attempt) ==
    Min(h_delay_in.base_delay * Pow2(attempt - 1), h_delay_in.max_delay)

\* the values get_retry_delay can return for the attempt after the one
\* computed, over every fractional second of the clock
NextDelays ==
    {GetRetryDelay(h_delay_in.attempt + 1, h_delay_in.base_delay, h_delay_in.max_delay, f) :
        f \in 0..(FracSteps - 1)}

SpecDetail(resp) ==
    IF Decodable(resp.text) /\ JsonDecode(resp.text).type = "dict"
          /\ "message" \in DOMAIN JsonDecode(resp.text).fields
    THEN JsonDecode(resp.text).fields["message"]
    ELSE resp.text

\* C25: for a response that is not a success, the error raised by
\* handle_response has the message "{service} API error: {status_code}"
\* followed by " - {detail}", the detail being the decoded body's message
\* field when there is one and the raw response text in every other case,
\* a body that decodes without a message field included.
C25_ErrorMessageDetail ==
    (Classified /\ response.status_code \notin 200..299)
    => /\ classified.kind = "raise"
       /\ classified.message =
            <<service, " API error: ", ToString(response.status_code),
              " - ", SpecDetail(response)>>

(* Properties of the error classes (SpecErrors) *)

\* C21: an error object of APIError or a subclass reads back the message,
\* status_code and response it was constructed with, has None for a
\* status_code or response that was omitted, and its string form is its
\* message.
C21_ErrorKeepsArguments ==
    \A e \in e_error :
        /\ e.cls = e_args.cls
        /\ e.message = e_args.message
        /\ e.status_code = (IF "status_code" \in e_args.given THEN e_args.status_code ELSE {})
        /\ e.response = (IF "response" \in e_args.given THEN e_args.response ELSE None)
        /\ ExceptionStr(e.args) = e_args.message

\* C21 witness: a RateLimitError constructed with a status code and without
\* a response, while a response value was at hand.
C21_Witness ==
    \E e \in e_error :
        /\ e.cls = "RateLimitError" /\ e.status_code = {429}
        /\ e_args.given = {"status_code"} /\ e_args.response # None
        /\ e.response = None

====
